---- MODULE Spec2Model ----
(***************************************************************************)
(* The engagement-state synchronisation layer of the Media page            *)
(* (src/src/pages/Media.tsx): fetchMediaContent and its in-progress        *)
(* marker, the realtime subscription effect, handleLike / handleFollow     *)
(* with their optimistic patch and snapshot rollback, against a backend    *)
(* holding media_content, media_likes and creator_follows.                 *)
(*                                                                         *)
(* One logical thread: every action is one run-to-completion piece of a    *)
(* handler, from one await to the next.  The values a handler closes over  *)
(* (mediaContent, activeTab, user) are those of the last committed render  *)
(* (rContent, rTab, rUser); the state setters act on the state itself.     *)
(* Commit is the render that brings the closures up to date and runs the   *)
(* effects whose dependencies changed.                                     *)
(***************************************************************************)
EXTENDS Integers, Sequences, FiniteSets, TLC

VARIABLES
  likeEdges,        \* backend table media_likes: set of <<user_id, media_id>>
  followEdges,      \* backend table creator_follows: set of <<follower_id, creator_name>>
  likes_count,      \* backend column media_content.likes_count, by media id
  user,             \* viewer identity supplied by the auth context (Null: signed out)
  mounted,          \* the Media view is mounted
  activeTab,        \* useState('stream')
  mediaContent,     \* useState<MediaItem[]>([])
  loading,          \* useState(true)
  error,            \* useState<string | null>(null)
  fetchInProgress,  \* fetchInProgressRef.current
  rTab, rUser, rContent,  \* what the last committed render closed over
  deps,             \* [activeTab, user] the effects last ran with
  subs,             \* live realtime subscriptions
  events,           \* change events on their way to a subscription callback
  fetches,          \* fetchMediaContent cycles suspended at an await (degraded: an
                    \* edge read of the cycle returned an error, kept for the
                    \* properties only)
  writes,           \* handleLike / handleFollow calls suspended at their durable write
                    \* (before: the collection the patch was applied to, kept for
                    \* the properties only)
  clicks,           \* user intents so far (bounded)
  ext,              \* writes by other clients so far (bounded)
  last,             \* what the last step did
  \* useMediaData(type, userId), src/unnamed/part_000
  type, userId,     \* the hook's arguments at its last render
  mediaItems,       \* useState<MediaItem[]>([])
  hookLoading,      \* the hook's loading, useState(true)
  hookError,        \* the hook's error, useState<string | null>(null)
  hookMounted,      \* the component using the hook is mounted
  hookDeps,         \* [type, userId] the hook's effect last ran with
  channels,         \* live realtime channels of the hook
  notices,          \* change events on their way to a channel callback of the hook
  cycles,           \* fetchMediaItems calls suspended at an await
  calls             \* triggers given to the hook so far (bounded)

vars == <<likeEdges, followEdges, likes_count, user, mounted, activeTab,
          mediaContent, loading, error, fetchInProgress, rTab, rUser, rContent,
          deps, subs, events, fetches, writes, clicks, ext, last,
          type, userId, mediaItems, hookLoading, hookError, hookMounted, hookDeps,
          channels, notices, cycles, calls>>

hook == <<type, userId, mediaItems, hookLoading, hookError, hookMounted, hookDeps,
          channels, notices, cycles, calls>>

\* the page's own state, the backend apart
page == <<user, mounted, activeTab, mediaContent, loading, error, fetchInProgress,
          rTab, rUser, rContent, deps, subs, events, fetches, writes, clicks, ext, last>>

backend == <<likeEdges, followEdges, likes_count>>
store == <<mediaContent, loading, error>>
closure == <<rTab, rUser, rContent>>

(***************************************************************************)
(* Bounds of the model.                                                    *)
(***************************************************************************)
MaxClicks == 2      \* user intents: toggles, tab switches, sign in / out, retry, leaving
MaxExt == 1         \* writes made by other clients
NumTabs == 2        \* how many of the page's tabs the user moves between
MaxStored == 1      \* largest value another writer leaves in likes_count
MaxCalls == 2       \* triggers given to the hook: argument changes, refetch, changes, unmount

(***************************************************************************)
(* Values.                                                                 *)
(***************************************************************************)
Null == "null"
NoDeps == <<>>
Viewer == "u1"
Other == "u2"

tabs == <<"stream", "listen", "blog", "gallery", "resources">>

Tabs == {tabs[i] : i \in 1..(IF NumTabs < Len(tabs) THEN NumTabs ELSE Len(tabs))}

\* The rows of media_content, already in created_at descending order.
media_content ==
  << [id |-> "a", type |-> "stream", creator_name |-> "Jo"],
     [id |-> "b", type |-> "stream", creator_name |-> "Jo"],
     [id |-> "c", type |-> "stream", creator_name |-> "Al"] >>

MediaIds == {media_content[i].id : i \in 1..Len(media_content)}
Creators == {media_content[i].creator_name : i \in 1..Len(media_content)}

FetchFailed == "Failed to load media content. Please try again."
LikeFailed == "Failed to update like. Please try again."
FollowFailed == "Failed to update follow status. Please try again."

ItemsFailed == "Failed to load media items"

Outcomes == {"ok", "error", "throw"}

(***************************************************************************)
(* Backend reads and the trigger on media_likes.                           *)
(***************************************************************************)
RemoveAt(s, i) == SubSeq(s, 1, i - 1) \o SubSeq(s, i + 1, Len(s))

\* from('media_content').select('*').eq('type', tab).order('created_at', desc)
SelectContent(tab) ==
  LET rows == SelectSeq(media_content, LAMBDA r : r.type = tab)
  IN  [i \in 1..Len(rows) |->
         [id |-> rows[i].id, type |-> rows[i].type,
          creator_name |-> rows[i].creator_name,
          likes_count |-> likes_count[rows[i].id]]]

\* from('media_likes').select('media_id').eq('user_id', u): the ids liked by u
SelectUserLikes(u) == {e[2] : e \in {x \in likeEdges : x[1] = u}}

\* from('creator_follows').select('creator_name').eq('follower_id', u)
SelectUserFollows(u) == {e[2] : e \in {x \in followEdges : x[1] = u}}

\* update_media_likes_count_v2(): +1 on INSERT, GREATEST(0, -1) on DELETE
TriggerInsert(id) == [likes_count EXCEPT ![id] = @ + 1]

\* variant: the DELETE branch without GREATEST(0, ...)
TriggerDelete_NoFloor(id) == [likes_count EXCEPT ![id] = @ - 1]
TriggerDelete(id) == [likes_count EXCEPT ![id] = IF @ - 1 < 0 THEN 0 ELSE @ - 1]

(***************************************************************************)
(* Enrichment (fetchMediaContent, lines 137-151).                          *)
(***************************************************************************)
\* JavaScript a || b on numbers: 0 and undefined are falsy
JsOr(a, b) == IF a # 0 THEN a ELSE b

\* likesCountMap.get(id): one count per media_likes row read
likesCountMap(allLikes, id) == Cardinality({e \in allLikes : e[2] = id})

\* variant: the follow flag looked up by the item's id
enrichItem_FollowById(item, allLikes, userLikes, userFollows) ==
  [id |-> item.id, type |-> item.type, creator_name |-> item.creator_name,
   likes_count |-> JsOr(JsOr(likesCountMap(allLikes, item.id), item.likes_count), 0),
   is_liked |-> item.id \in userLikes,
   is_following |-> item.id \in userFollows]

enrichItem(item, allLikes, userLikes, userFollows) ==
  [id |-> item.id, type |-> item.type, creator_name |-> item.creator_name,
   likes_count |-> JsOr(JsOr(likesCountMap(allLikes, item.id), item.likes_count), 0),
   is_liked |-> item.id \in userLikes,
   is_following |-> item.creator_name \in userFollows]

enrichedData(mediaData, allLikes, userLikes, userFollows) ==
  [i \in 1..Len(mediaData) |->
     enrichItem(mediaData[i], allLikes, userLikes, userFollows)]

(***************************************************************************)
(* Optimistic patches (handleLike 181-191, handleFollow 229-235).          *)
(***************************************************************************)
Max0(n) == IF n < 0 THEN 0 ELSE n

\* variant: the unlike delta without Math.max(0, ...)
likePatch_NoFloor(prev, mediaId, wasLiked) ==
  [i \in 1..Len(prev) |->
     IF prev[i].id = mediaId
       THEN [prev[i] EXCEPT !.is_liked = ~wasLiked,
                            !.likes_count = IF wasLiked THEN @ - 1 ELSE @ + 1]
       ELSE prev[i]]

likePatch(prev, mediaId, wasLiked) ==
  [i \in 1..Len(prev) |->
     IF prev[i].id = mediaId
       THEN [prev[i] EXCEPT !.is_liked = ~wasLiked,
                            !.likes_count = IF wasLiked THEN Max0(@ - 1) ELSE @ + 1]
       ELSE prev[i]]

\* variant: the patch applied to every item, whatever its creator
followPatch_AllItems(prev, creatorName, wasFollowing) ==
  [i \in 1..Len(prev) |-> [prev[i] EXCEPT !.is_following = ~wasFollowing]]

\* variant: the patch applied to the first item of the creator only
followPatch_FirstOnly(prev, creatorName, wasFollowing) ==
  [i \in 1..Len(prev) |->
     IF /\ prev[i].creator_name = creatorName
        /\ \A j \in 1..(i - 1) : prev[j].creator_name # creatorName
       THEN [prev[i] EXCEPT !.is_following = ~wasFollowing]
       ELSE prev[i]]

followPatch(prev, creatorName, wasFollowing) ==
  [i \in 1..Len(prev) |->
     IF prev[i].creator_name = creatorName
       THEN [prev[i] EXCEPT !.is_following = ~wasFollowing]
       ELSE prev[i]]

\* mediaContent.find(pred): the first item of the collection among those at the
\* matching indexes idx
Find(content, idx) == content[CHOOSE i \in idx : \A j \in idx : i <= j]

Ids(content) == {content[i].id : i \in 1..Len(content)}
Names(content) == {content[i].creator_name : i \in 1..Len(content)}

\* the hook has been called once, with the auth context's initial null user
\* (AuthContext.tsx line 45); its effect has not run yet
HookIdle ==
  /\ type = "stream"
  /\ userId = Null
  /\ mediaItems = <<>>
  /\ hookLoading = TRUE
  /\ hookError = Null
  /\ hookMounted = TRUE
  /\ hookDeps = NoDeps
  /\ channels = {}
  /\ notices = <<>>
  /\ cycles = <<>>
  /\ calls = 0

(***************************************************************************)
(* Initial state: the component function has run once (useState initial   *)
(* values), no effect has run yet.  The database holds the content rows    *)
(* and no edge.                                                            *)
(***************************************************************************)
Init ==
  /\ likeEdges = {}
  /\ followEdges = {}
  /\ likes_count = [id \in MediaIds |-> 0]
  /\ user \in {Null, Viewer}
  /\ mounted = TRUE
  /\ activeTab = "stream"
  /\ mediaContent = <<>>
  /\ loading = TRUE
  /\ error = Null
  /\ fetchInProgress = FALSE
  /\ rTab = "stream"
  /\ rUser = user
  /\ rContent = <<>>
  /\ deps = NoDeps
  /\ subs = {}
  /\ events = <<>>
  /\ fetches = <<>>
  /\ writes = <<>>
  /\ clicks = 0
  /\ ext = 0
  /\ last = "init"
  /\ HookIdle

(***************************************************************************)
(* fetchMediaContent, lines 87-95: the guard and the synchronous part up   *)
(* to the first await.  err is the value of error when the call is made.   *)
(***************************************************************************)
\* variant: the in-progress check of lines 88-90 left out
fetchMediaContent_NoGuard(tab, usr, err) ==
  /\ fetchInProgress' = TRUE
  /\ loading' = TRUE
  /\ error' = Null
  /\ fetches' = Append(fetches,
       [tab |-> tab, user |-> usr, pc |-> "content",
        mediaData |-> <<>>, allLikes |-> {}, userLikes |-> {},
        degraded |-> FALSE])

fetchMediaContent(tab, usr, err) ==
  IF fetchInProgress
    THEN /\ UNCHANGED <<fetchInProgress, loading, fetches>>
         /\ error' = err
    ELSE /\ fetchInProgress' = TRUE
         /\ loading' = TRUE
         /\ error' = Null
         /\ fetches' = Append(fetches,
              [tab |-> tab, user |-> usr, pc |-> "content",
               mediaData |-> <<>>, allLikes |-> {}, userLikes |-> {},
               degraded |-> FALSE])

(***************************************************************************)
(* The realtime subscription effect, lines 60-85.                          *)
(***************************************************************************)
\* the two channels the effect opens; none when there is no user (line 61)
subscribe(tab, usr) ==
  IF usr = Null THEN {}
  ELSE {[table |-> "media_likes", tab |-> tab, user |-> usr],
        [table |-> "creator_follows", tab |-> tab, user |-> usr]}

\* variant: the cleanup made to depend on the user, as the setup does (line 61)
unsubscribe_OnlyWithUser(old) == IF user = Null THEN subs ELSE subs \ old

\* lines 81-84: the cleanup unsubscribes both channels of the previous effect
\* run; what is left live afterwards
unsubscribe(old) == subs \ old

\* the channel a change event is addressed to
Channel(e) == [table |-> e.table, tab |-> e.tab, user |-> e.user]

\* events addressed to a channel that is no longer live are not delivered
Pending(live) == SelectSeq(events, LAMBDA e : Channel(e) \in live)

RECURSIVE SeqOf(_)
SeqOf(S) == IF S = {} THEN <<>>
            ELSE LET x == CHOOSE y \in S : TRUE IN <<x>> \o SeqOf(S \ {x})

\* postgres_changes, event '*': one event per live channel on the table,
\* carrying the kind of the change (payload.eventType)
Emitted(table, eventType) ==
  SeqOf({[table |-> c.table, tab |-> c.tab, user |-> c.user, eventType |-> eventType] :
           c \in {x \in subs : x.table = table}})

(***************************************************************************)
(* Commit: React commits a render (the handlers now close over the current *)
(* state) and runs the effects of lines 56-58 and 60-85 when [activeTab,   *)
(* user] changed, cleanup of the previous subscription first.              *)
(***************************************************************************)
Commit ==
  /\ mounted
  /\ \/ deps = NoDeps
     \/ <<rTab, rUser, rContent>> # <<activeTab, user, mediaContent>>
  /\ rTab' = activeTab
  /\ rUser' = user
  /\ rContent' = mediaContent
  /\ IF deps # <<activeTab, user>>
       THEN /\ fetchMediaContent(activeTab, user, error)
            /\ subs' = unsubscribe(subs) \cup subscribe(activeTab, user)
            /\ events' = Pending(unsubscribe(subs))
            /\ deps' = <<activeTab, user>>
       ELSE UNCHANGED <<fetchInProgress, loading, error, fetches, subs, events, deps>>
  /\ last' = "other"
  /\ UNCHANGED <<hook, backend, user, mounted, activeTab, mediaContent, writes, clicks, ext>>

(***************************************************************************)
(* The view goes away (route change): the subscription effect's cleanup    *)
(* runs; nothing in flight is cancelled.                                   *)
(***************************************************************************)
Unmount ==
  /\ mounted' = FALSE
  /\ subs' = unsubscribe(subs)
  /\ events' = Pending(unsubscribe(subs))

Dismount ==
  /\ mounted
  /\ clicks < MaxClicks
  /\ Unmount
  /\ clicks' = clicks + 1
  /\ last' = "other"
  /\ UNCHANGED <<hook, backend, user, activeTab, store, fetchInProgress, closure, deps,
                 fetches, writes, ext>>

(***************************************************************************)
(* User intents on the mounted page.                                       *)
(***************************************************************************)
\* line 290: onClick={() => setActiveTab(tab.id)}
SetActiveTab(t) ==
  /\ mounted
  /\ clicks < MaxClicks
  /\ t # activeTab
  /\ activeTab' = t
  /\ clicks' = clicks + 1
  /\ last' = "other"
  /\ UNCHANGED <<hook, backend, user, mounted, store, fetchInProgress, closure, deps,
                 subs, events, fetches, writes, ext>>

\* the auth context signs the viewer in or out (AuthContext.tsx setUser)
AuthChange ==
  /\ mounted
  /\ clicks < MaxClicks
  /\ user' = IF user = Null THEN Viewer ELSE Null
  /\ clicks' = clicks + 1
  /\ last' = "other"
  /\ UNCHANGED <<hook, backend, mounted, activeTab, store, fetchInProgress, closure, deps,
                 subs, events, fetches, writes, ext>>

\* lines 331-343: the Retry button of the error banner
Retry ==
  /\ mounted
  /\ clicks < MaxClicks
  /\ error # Null
  /\ fetchMediaContent(rTab, rUser, Null)
  /\ clicks' = clicks + 1
  /\ last' = "other"
  /\ UNCHANGED <<hook, backend, user, mounted, activeTab, mediaContent, closure, deps,
                 subs, events, writes, ext>>

(***************************************************************************)
(* handleLike, lines 167-213, up to its await.                             *)
(***************************************************************************)
\* lines 168-172: no user: alert, navigate('/signin'), return
Unauthenticated ==
  /\ Unmount
  /\ last' = "unauth"
  /\ UNCHANGED <<hook, backend, user, activeTab, store, fetchInProgress, closure, deps,
                 fetches, writes, ext>>

\* variant: the user check of lines 168-172 left out
handleLike_NoUserCheck(mediaId) ==
  /\ mounted
  /\ clicks < MaxClicks
  /\ mediaId \in Ids(rContent)
  /\ clicks' = clicks + 1
  /\ LET item == Find(rContent, {k \in DOMAIN rContent : rContent[k].id = mediaId})
         wasLiked == item.is_liked
     IN  /\ mediaContent' = likePatch(mediaContent, mediaId, wasLiked)
         /\ writes' = Append(writes,
              [table |-> "media_likes",
               op |-> IF wasLiked THEN "delete" ELSE "insert",
               target |-> mediaId, user |-> rUser,
               previousContent |-> rContent,
               before |-> mediaContent])
         /\ last' = "patch"
         /\ UNCHANGED <<hook, backend, user, mounted, activeTab, loading, error,
                        fetchInProgress, closure, deps, subs, events,
                        fetches, ext>>

handleLike(mediaId) ==
  /\ mounted
  /\ clicks < MaxClicks
  /\ mediaId \in Ids(rContent)
  /\ clicks' = clicks + 1
  /\ IF rUser = Null
       THEN Unauthenticated
       ELSE LET item == Find(rContent, {k \in DOMAIN rContent : rContent[k].id = mediaId})
                wasLiked == item.is_liked
                previousContent == rContent
            IN  /\ mediaContent' = likePatch(mediaContent, mediaId, wasLiked)
                /\ writes' = Append(writes,
                     [table |-> "media_likes",
                      op |-> IF wasLiked THEN "delete" ELSE "insert",
                      target |-> mediaId, user |-> rUser,
                      previousContent |-> previousContent,
                      before |-> mediaContent])
                /\ last' = "patch"
                /\ UNCHANGED <<hook, backend, user, mounted, activeTab, loading, error,
                               fetchInProgress, closure, deps, subs, events,
                               fetches, ext>>

(***************************************************************************)
(* handleFollow, lines 215-257, up to its await.                           *)
(***************************************************************************)
handleFollow(creatorName) ==
  /\ mounted
  /\ clicks < MaxClicks
  /\ creatorName \in Names(rContent)
  /\ clicks' = clicks + 1
  /\ IF rUser = Null
       THEN Unauthenticated
       ELSE LET item == Find(rContent, {k \in DOMAIN rContent :
                                          rContent[k].creator_name = creatorName})
                wasFollowing == item.is_following
                previousContent == rContent
            IN  /\ mediaContent' = followPatch(mediaContent, creatorName, wasFollowing)
                /\ writes' = Append(writes,
                     [table |-> "creator_follows",
                      op |-> IF wasFollowing THEN "delete" ELSE "insert",
                      target |-> creatorName, user |-> rUser,
                      previousContent |-> previousContent,
                      before |-> mediaContent])
                /\ last' = "patch"
                /\ UNCHANGED <<hook, backend, user, mounted, activeTab, loading, error,
                               fetchInProgress, closure, deps, subs, events,
                               fetches, ext>>

(***************************************************************************)
(* Backend writes: insert / delete of an edge row.  UNIQUE(user_id,        *)
(* media_id) and UNIQUE(follower_id, creator_name) make a second insert of *)
(* the same edge an error; a delete of an absent edge deletes nothing.     *)
(* Every changed row is announced to the live channels of its table.       *)
(***************************************************************************)
Edge(w) == <<w.user, w.target>>

Table(w) == IF w.table = "media_likes" THEN likeEdges ELSE followEdges

Accepted(w) == w.op = "delete" \/ Edge(w) \notin Table(w)

ChangesRow(w) == IF w.op = "insert" THEN Edge(w) \notin Table(w) ELSE Edge(w) \in Table(w)

\* variant: a delete scoped by target only (.eq('user_id', ...) left out)
Apply_DeleteUnscoped(w) ==
  LET onTarget == {e \in Table(w) : e[2] = w.target}
  IN
  /\ likeEdges' = IF w.table # "media_likes" THEN likeEdges
                  ELSE IF w.op = "insert" THEN likeEdges \cup {Edge(w)}
                  ELSE likeEdges \ onTarget
  /\ followEdges' = IF w.table # "creator_follows" THEN followEdges
                    ELSE IF w.op = "insert" THEN followEdges \cup {Edge(w)}
                    ELSE followEdges \ onTarget
  /\ likes_count' = IF w.table # "media_likes" \/ ~ChangesRow(w) THEN likes_count
                    ELSE IF w.op = "insert" THEN TriggerInsert(w.target)
                    ELSE TriggerDelete(w.target)
  /\ events' = IF ChangesRow(w)
                THEN events \o Emitted(w.table, IF w.op = "insert" THEN "INSERT" ELSE "DELETE")
                ELSE events

Apply(w) ==
  /\ likeEdges' = IF w.table # "media_likes" THEN likeEdges
                  ELSE IF w.op = "insert" THEN likeEdges \cup {Edge(w)}
                  ELSE likeEdges \ {Edge(w)}
  /\ followEdges' = IF w.table # "creator_follows" THEN followEdges
                    ELSE IF w.op = "insert" THEN followEdges \cup {Edge(w)}
                    ELSE followEdges \ {Edge(w)}
  /\ likes_count' = IF w.table # "media_likes" \/ ~ChangesRow(w) THEN likes_count
                    ELSE IF w.op = "insert" THEN TriggerInsert(w.target)
                    ELSE TriggerDelete(w.target)
  /\ events' = IF ChangesRow(w)
                THEN events \o Emitted(w.table, IF w.op = "insert" THEN "INSERT" ELSE "DELETE")
                ELSE events

(***************************************************************************)
(* The durable write of a toggle returns: lines 193-212 and 237-256.       *)
(***************************************************************************)
rollback(w) ==
  /\ mediaContent' = w.previousContent
  /\ error' = IF w.table = "media_likes" THEN LikeFailed ELSE FollowFailed

WriteReturn(i, outcome) ==
  /\ i \in 1..Len(writes)
  /\ writes' = RemoveAt(writes, i)
  /\ IF outcome = "ok" /\ Accepted(writes[i])
       THEN /\ Apply(writes[i])
            /\ last' = "writeOk"
            /\ UNCHANGED <<mediaContent, error>>
       ELSE /\ rollback(writes[i])
            /\ last' = "rollback"
            /\ UNCHANGED <<backend, events>>
  /\ UNCHANGED <<hook, user, mounted, activeTab, loading, fetchInProgress, closure, deps,
                 subs, fetches, clicks, ext>>

(***************************************************************************)
(* Other clients write to the shared backend.                              *)
(***************************************************************************)
OtherWrite(table, op, target) ==
  /\ mounted
  /\ ext < MaxExt
  /\ LET w == [table |-> table, op |-> op, target |-> target, user |-> Other]
     IN  /\ ChangesRow(w)
         /\ Apply(w)
  /\ ext' = ext + 1
  /\ last' = "other"
  /\ UNCHANGED <<hook, user, mounted, activeTab, store, fetchInProgress, closure, deps,
                 subs, fetches, writes, clicks>>

(***************************************************************************)
(* A change event reaches its channel's callback, lines 65-69 and 74-78.   *)
(***************************************************************************)
\* variant: a callback that reacts to INSERT events only
DeliverEvent_InsertOnly ==
  /\ events # <<>>
  /\ events' = Tail(events)
  /\ IF ~fetchInProgress /\ Head(events).eventType = "INSERT"
       THEN fetchMediaContent(Head(events).tab, Head(events).user, error)
       ELSE UNCHANGED <<fetchInProgress, loading, error, fetches>>
  /\ last' = "event"
  /\ UNCHANGED <<hook, backend, user, mounted, activeTab, mediaContent, closure, deps,
                 subs, writes, clicks, ext>>

DeliverEvent ==
  /\ events # <<>>
  /\ events' = Tail(events)
  /\ IF ~fetchInProgress
       THEN fetchMediaContent(Head(events).tab, Head(events).user, error)
       ELSE UNCHANGED <<fetchInProgress, loading, error, fetches>>
  /\ last' = "event"
  /\ UNCHANGED <<hook, backend, user, mounted, activeTab, mediaContent, closure, deps,
                 subs, writes, clicks, ext>>

(***************************************************************************)
(* fetchMediaContent resumes after an await, lines 96-164.                 *)
(***************************************************************************)
\* variant: the release of the marker (line 163) left out
finally_NoRelease(i) ==
  /\ fetches' = RemoveAt(fetches, i)
  /\ fetchInProgress' = fetchInProgress
  /\ loading' = FALSE

\* finally, lines 161-164
finally(i) ==
  /\ fetches' = RemoveAt(fetches, i)
  /\ fetchInProgress' = FALSE
  /\ loading' = FALSE

\* catch, lines 157-160
catch(i) ==
  /\ error' = FetchFailed
  /\ mediaContent' = <<>>
  /\ finally(i)
  /\ last' = "fetchFail"

\* variant: the items a pending toggle is about are kept as they are in the
\* collection instead of being replaced
complete_KeepPending(i, allLikes, userLikes, userFollows, degraded) ==
  /\ mediaContent' =
       LET new == enrichedData(fetches[i].mediaData, allLikes, userLikes, userFollows)
           pending(m) == \E j \in DOMAIN writes :
                           IF writes[j].table = "media_likes"
                             THEN writes[j].target = m.id
                             ELSE writes[j].target = m.creator_name
       IN  [k \in 1..Len(new) |->
              IF pending(new[k]) /\ new[k].id \in Ids(mediaContent)
                THEN Find(mediaContent, {l \in DOMAIN mediaContent :
                                           mediaContent[l].id = new[k].id})
                ELSE new[k]]
  /\ error' = error
  /\ finally(i)
  /\ last' = IF degraded THEN "fetchDegraded" ELSE "fetchOk"

\* variant: a cycle with a failed edge read reports the fetch error
complete_SetsErrorWhenDegraded(i, allLikes, userLikes, userFollows, degraded) ==
  /\ mediaContent' = enrichedData(fetches[i].mediaData, allLikes, userLikes, userFollows)
  /\ error' = IF degraded THEN FetchFailed ELSE error
  /\ finally(i)
  /\ last' = IF degraded THEN "fetchDegraded" ELSE "fetchOk"

\* lines 137-153, then finally
complete(i, allLikes, userLikes, userFollows, degraded) ==
  /\ mediaContent' = enrichedData(fetches[i].mediaData, allLikes, userLikes, userFollows)
  /\ error' = error
  /\ finally(i)
  /\ last' = IF degraded THEN "fetchDegraded" ELSE "fetchOk"

\* the cycle waits at its next await
suspend ==
  /\ last' = "other"
  /\ UNCHANGED <<store, fetchInProgress>>

\* variant: an empty result leaves the collection as it is (lines 154-156 left out)
ContentReturn_KeepOnEmpty(i, outcome) ==
  /\ i \in 1..Len(fetches)
  /\ fetches[i].pc = "content"
  /\ IF outcome # "ok"
       THEN catch(i)
       ELSE LET mediaData == SelectContent(fetches[i].tab)
            IN  IF Len(mediaData) > 0
                  THEN /\ fetches' = [fetches EXCEPT ![i].pc = "allLikes",
                                                     ![i].mediaData = mediaData]
                       /\ suspend
                  ELSE /\ mediaContent' = mediaContent
                       /\ error' = error
                       /\ finally(i)
                       /\ last' = "fetchOk"
  /\ UNCHANGED <<hook, backend, user, mounted, activeTab, closure, deps, subs, events,
                 writes, clicks, ext>>

\* lines 97-105 and 154-156
ContentReturn(i, outcome) ==
  /\ i \in 1..Len(fetches)
  /\ fetches[i].pc = "content"
  /\ IF outcome # "ok"
       THEN catch(i)
       ELSE LET mediaData == SelectContent(fetches[i].tab)
            IN  IF Len(mediaData) > 0
                  THEN /\ fetches' = [fetches EXCEPT ![i].pc = "allLikes",
                                                     ![i].mediaData = mediaData]
                       /\ suspend
                  ELSE /\ mediaContent' = <<>>
                       /\ error' = error
                       /\ finally(i)
                       /\ last' = "fetchOk"
  /\ UNCHANGED <<hook, backend, user, mounted, activeTab, closure, deps, subs, events,
                 writes, clicks, ext>>

\* variant: the if (user) of line 117 left out
AllLikesReturn_NoUserCheck(i, outcome) ==
  /\ i \in 1..Len(fetches)
  /\ fetches[i].pc = "allLikes"
  /\ IF outcome = "throw"
       THEN catch(i)
       ELSE /\ fetches' = [fetches EXCEPT ![i].pc = "userLikes",
                                          ![i].allLikes = IF outcome = "ok" THEN likeEdges ELSE {},
                                          ![i].degraded = outcome # "ok"]
            /\ suspend
  /\ UNCHANGED <<hook, backend, user, mounted, activeTab, closure, deps, subs, events,
                 writes, clicks, ext>>

\* lines 106-117
AllLikesReturn(i, outcome) ==
  /\ i \in 1..Len(fetches)
  /\ fetches[i].pc = "allLikes"
  /\ IF outcome = "throw"
       THEN catch(i)
       ELSE LET allLikes == IF outcome = "ok" THEN likeEdges ELSE {}
            IN  IF fetches[i].user # Null
                  THEN /\ fetches' = [fetches EXCEPT ![i].pc = "userLikes",
                                                     ![i].allLikes = allLikes,
                                                     ![i].degraded = outcome # "ok"]
                       /\ suspend
                  ELSE complete(i, allLikes, {}, {}, outcome # "ok")
  /\ UNCHANGED <<hook, backend, user, mounted, activeTab, closure, deps, subs, events,
                 writes, clicks, ext>>

\* lines 118-125
UserLikesReturn(i, outcome) ==
  /\ i \in 1..Len(fetches)
  /\ fetches[i].pc = "userLikes"
  /\ IF outcome = "throw"
       THEN catch(i)
       ELSE /\ fetches' = [fetches EXCEPT
                 ![i].pc = "userFollows",
                 ![i].userLikes = IF outcome = "ok"
                                    THEN SelectUserLikes(fetches[i].user) ELSE {},
                 ![i].degraded = @ \/ outcome # "ok"]
            /\ suspend
  /\ UNCHANGED <<hook, backend, user, mounted, activeTab, closure, deps, subs, events,
                 writes, clicks, ext>>

\* lines 127-153
UserFollowsReturn(i, outcome) ==
  /\ i \in 1..Len(fetches)
  /\ fetches[i].pc = "userFollows"
  /\ IF outcome = "throw"
       THEN catch(i)
       ELSE complete(i, fetches[i].allLikes, fetches[i].userLikes,
                     IF outcome = "ok" THEN SelectUserFollows(fetches[i].user) ELSE {},
                     fetches[i].degraded \/ outcome # "ok")
  /\ UNCHANGED <<hook, backend, user, mounted, activeTab, closure, deps, subs, events,
                 writes, clicks, ext>>

(***************************************************************************)
(* useMediaData (src/unnamed/part_000).  Its tables media_items, likes and *)
(* creator_follows are read from the rows of media_content, media_likes    *)
(* and creator_follows (creator is creator_name, like_count likes_count).  *)
(***************************************************************************)
\* lines 74-100
enrichedItems(items, likesData, followsData, u) ==
  [i \in 1..Len(items) |->
     [id |-> items[i].id, type |-> items[i].type, creator |-> items[i].creator_name,
      like_count |-> JsOr(JsOr(Cardinality({e \in likesData : e[2] = items[i].id}),
                               items[i].likes_count), 0),
      is_liked |-> u # Null /\ <<u, items[i].id>> \in likesData,
      is_followed |-> u # Null /\ <<u, items[i].creator_name>> \in followsData]]

\* fetchMediaItems, lines 48-52: up to the first await; nothing keeps a second
\* call from starting while one is suspended
fetchMediaItems(t, u) ==
  /\ hookLoading' = TRUE
  /\ hookError' = Null
  /\ cycles' = Append(cycles, [type |-> t, userId |-> u, pc |-> "items",
                               items |-> <<>>, likesData |-> {}])

\* lines 12-40: the two channels of an effect run
hookChannels(t, u) ==
  {[table |-> "likes", type |-> t, userId |-> u],
   [table |-> "creator_follows", type |-> t, userId |-> u]}

\* the effect of lines 9-46 runs: cleanup of the previous run (42-45), then
\* fetchMediaItems() and the two subscriptions
HookEffect ==
  /\ hookMounted
  /\ hookDeps # <<type, userId>>
  /\ fetchMediaItems(type, userId)
  /\ channels' = hookChannels(type, userId)
  /\ notices' = <<>>
  /\ hookDeps' = <<type, userId>>
  /\ UNCHANGED <<type, userId, mediaItems, hookMounted, calls>>
  /\ UNCHANGED <<backend, page>>

\* the component is rendered with other arguments
SetProps(t, u) ==
  /\ hookMounted
  /\ calls < MaxCalls
  /\ <<t, u>> # <<type, userId>>
  /\ type' = t
  /\ userId' = u
  /\ calls' = calls + 1
  /\ UNCHANGED <<mediaItems, hookLoading, hookError, hookMounted, hookDeps, channels,
                 notices, cycles>>
  /\ UNCHANGED <<backend, page>>

\* line 112: the consumer calls refetch
refetch ==
  /\ hookMounted
  /\ calls < MaxCalls
  /\ fetchMediaItems(type, userId)
  /\ calls' = calls + 1
  /\ UNCHANGED <<type, userId, mediaItems, hookMounted, hookDeps, channels, notices>>
  /\ UNCHANGED <<backend, page>>

\* another user likes or unlikes an item: the row change is announced to the
\* live channels on table likes
OtherLike(id) ==
  /\ calls < MaxCalls
  /\ likeEdges' = IF <<Other, id>> \in likeEdges
                    THEN likeEdges \ {<<Other, id>>}
                    ELSE likeEdges \cup {<<Other, id>>}
  /\ notices' = notices \o SeqOf({c \in channels : c.table = "likes"})
  /\ calls' = calls + 1
  /\ UNCHANGED <<type, userId, mediaItems, hookLoading, hookError, hookMounted,
                 hookDeps, channels, cycles>>
  /\ UNCHANGED <<followEdges, likes_count, page>>

\* lines 21-23 and 36-38: a channel callback runs
HookDeliver ==
  /\ notices # <<>>
  /\ notices' = Tail(notices)
  /\ fetchMediaItems(Head(notices).type, Head(notices).userId)
  /\ UNCHANGED <<type, userId, mediaItems, hookMounted, hookDeps, channels, calls>>
  /\ UNCHANGED <<backend, page>>

\* the component goes away: the effect's cleanup, lines 42-45
HookUnmount ==
  /\ hookMounted
  /\ calls < MaxCalls
  /\ hookMounted' = FALSE
  /\ channels' = {}
  /\ notices' = <<>>
  /\ calls' = calls + 1
  /\ UNCHANGED <<type, userId, mediaItems, hookLoading, hookError, hookDeps, cycles>>
  /\ UNCHANGED <<backend, page>>

\* finally, lines 107-109
hookFinally(i) ==
  /\ cycles' = RemoveAt(cycles, i)
  /\ hookLoading' = FALSE

\* catch, lines 103-106
hookCatch(i) ==
  /\ hookError' = ItemsFailed
  /\ mediaItems' = <<>>
  /\ hookFinally(i)

\* lines 53-64
ItemsReturn(i, outcome) ==
  /\ i \in 1..Len(cycles)
  /\ cycles[i].pc = "items"
  /\ IF outcome # "ok"
       THEN hookCatch(i)
       ELSE LET items == SelectContent(cycles[i].type)
            IN  IF Len(items) = 0
                  THEN /\ mediaItems' = <<>>
                       /\ hookError' = hookError
                       /\ hookFinally(i)
                  ELSE /\ cycles' = [cycles EXCEPT ![i].pc = "likes", ![i].items = items]
                       /\ UNCHANGED <<mediaItems, hookLoading, hookError>>
  /\ UNCHANGED <<type, userId, hookMounted, hookDeps, channels, notices, calls>>
  /\ UNCHANGED <<backend, page>>

\* lines 66-68: an error result leaves likesData null
LikesDataReturn(i, outcome) ==
  /\ i \in 1..Len(cycles)
  /\ cycles[i].pc = "likes"
  /\ IF outcome = "throw"
       THEN hookCatch(i)
       ELSE /\ cycles' = [cycles EXCEPT
                 ![i].pc = "follows",
                 ![i].likesData = IF outcome = "ok" THEN likeEdges ELSE {}]
            /\ UNCHANGED <<mediaItems, hookLoading, hookError>>
  /\ UNCHANGED <<type, userId, hookMounted, hookDeps, channels, notices, calls>>
  /\ UNCHANGED <<backend, page>>

\* lines 70-102, then finally
FollowsDataReturn(i, outcome) ==
  /\ i \in 1..Len(cycles)
  /\ cycles[i].pc = "follows"
  /\ IF outcome = "throw"
       THEN hookCatch(i)
       ELSE /\ mediaItems' = enrichedItems(cycles[i].items, cycles[i].likesData,
                                           IF outcome = "ok" THEN followEdges ELSE {},
                                           cycles[i].userId)
            /\ hookError' = hookError
            /\ hookFinally(i)
  /\ UNCHANGED <<type, userId, hookMounted, hookDeps, channels, notices, calls>>
  /\ UNCHANGED <<backend, page>>

HookFetching(O) ==
  \E i \in DOMAIN cycles, o \in O :
    \/ ItemsReturn(i, o)
    \/ LikesDataReturn(i, o)
    \/ FollowsDataReturn(i, o)

\* the hook on a seeded backend, the page idle
NextHook ==
  \/ HookEffect
  \/ \E t \in Tabs, u \in {Null, Viewer} : SetProps(t, u)
  \/ refetch
  \/ \E id \in MediaIds : OtherLike(id)
  \/ HookDeliver
  \/ HookUnmount
  \/ HookFetching(Outcomes)

(***************************************************************************)
(* Specification.                                                          *)
(***************************************************************************)
Fetching(O) ==
  \E i \in DOMAIN fetches, o \in O :
    \/ ContentReturn(i, o)
    \/ AllLikesReturn(i, o)
    \/ UserLikesReturn(i, o)
    \/ UserFollowsReturn(i, o)

Writing(O) == \E i \in DOMAIN writes, o \in O : WriteReturn(i, o)

Toggling ==
  \/ \E mediaId \in MediaIds : handleLike(mediaId)
  \/ \E creatorName \in Creators : handleFollow(creatorName)

Navigating ==
  \/ \E t \in Tabs : SetActiveTab(t)
  \/ AuthChange
  \/ Dismount

Others == \E id \in MediaIds, op \in {"insert", "delete"} : OtherWrite("media_likes", op, id)

\* the page on a fresh database, with other clients, every call may fail
Next ==
  \/ Commit
  \/ DeliverEvent
  \/ Toggling
  \/ Navigating
  \/ Retry
  \/ Others
  \/ Fetching(Outcomes)
  \/ Writing(Outcomes)

Spec == Init /\ [][Next]_vars

\* the same with a backend whose calls all return successfully; the error
\* banner's Retry button is left alone
NextAllOk ==
  \/ Commit
  \/ DeliverEvent
  \/ Toggling
  \/ Navigating
  \/ Others
  \/ Fetching({"ok"})
  \/ Writing({"ok"})

SpecAllOk == Init /\ [][NextAllOk]_vars

\* the page opened on a database that already holds edges on item a and
\* creator Jo and a counter on a that other writers left there; the viewer
\* stays on the tab
InitSeeded ==
  /\ likeEdges \in SUBSET ({Viewer, Other} \X {"a"})
  /\ followEdges \in SUBSET {<<Viewer, "Jo">>}
  /\ \E n \in 0..MaxStored : likes_count = [id \in MediaIds |-> IF id = "a" THEN n ELSE 0]
  /\ user \in {Null, Viewer}
  /\ mounted = TRUE
  /\ activeTab = "stream"
  /\ mediaContent = <<>>
  /\ loading = TRUE
  /\ error = Null
  /\ fetchInProgress = FALSE
  /\ rTab = "stream"
  /\ rUser = user
  /\ rContent = <<>>
  /\ deps = NoDeps
  /\ subs = {}
  /\ events = <<>>
  /\ fetches = <<>>
  /\ writes = <<>>
  /\ clicks = 0
  /\ ext = 0
  /\ last = "init"
  /\ HookIdle

NextSeeded ==
  \/ Commit
  \/ DeliverEvent
  \/ Toggling
  \/ Fetching(Outcomes)
  \/ Writing(Outcomes)

SpecSeeded == InitSeeded /\ [][NextSeeded]_vars

\* the page left to its fetch triggers (no toggle), every read that was issued
\* returns: a suspended cycle is resumed sooner or later
NextFetch ==
  \/ Commit
  \/ DeliverEvent
  \/ Navigating
  \/ Retry
  \/ Others
  \/ Fetching(Outcomes)

SpecFetchFair == Init /\ [][NextFetch]_vars /\ WF_vars(Fetching(Outcomes))

\* the page on a seeded backend that stays as it is: every write of a toggle
\* fails, nobody else writes
NextFrozen ==
  \/ Commit
  \/ Toggling
  \/ Navigating
  \/ Retry
  \/ Fetching(Outcomes)
  \/ Writing({"error", "throw"})

SpecFrozen == InitSeeded /\ [][NextFrozen]_vars

SpecHook == InitSeeded /\ [][NextHook]_vars

(***************************************************************************)
(* Properties.                                                             *)
(***************************************************************************)
\* the item with this id in a collection (a collection holds an id once)
ItemOf(content, id) == Find(content, {k \in DOMAIN content : content[k].id = id})

\* what a fetch of the active tab for the current viewer would show now
Fresh ==
  LET mediaData == SelectContent(activeTab)
  IN  IF Len(mediaData) > 0
        THEN enrichedData(mediaData, likeEdges,
                          IF user = Null THEN {} ELSE SelectUserLikes(user),
                          IF user = Null THEN {} ELSE SelectUserFollows(user))
        ELSE <<>>

\* nothing is on its way: no cycle, no event, no write, no render to commit
Quiescent ==
  /\ mounted
  /\ fetches = <<>>
  /\ events = <<>>
  /\ writes = <<>>
  /\ deps = <<activeTab, user>>
  /\ <<rTab, rUser, rContent>> = <<activeTab, user, mediaContent>>

\* C1: at every moment at most one fetchMediaContent cycle is in flight, so a
\* trigger that arrives while a cycle is in flight starts no backend read.
C1_OneCycleInFlight == Len(fetches) <= 1

\* C1 witness: a change event was delivered while a cycle was already past
\* its first read.
C1_EventDuringCycle ==
  /\ last = "event"
  /\ Len(fetches) = 1
  /\ fetches[1].pc # "content"

\* C2: a failing fetch cycle leaves the item collection as it was and sets
\* error.
C2_FailureKeepsItems ==
  [][last' = "fetchFail" => (mediaContent' = mediaContent /\ error' # Null)]_vars

Touches(w, m) ==
  IF w.table = "media_likes" THEN m.id = w.target ELSE m.creator_name = w.target

\* the handler of this toggle ran on a render that showed the current state
SawCurrent(w) == w.previousContent = w.before

\* C4: the rollback of one toggle leaves alone the items of another toggle in
\* flight on a different target (each handler having seen the state of its time).
C4_RollbackLeavesOtherTarget ==
  [][\A i, j \in DOMAIN writes :
       ( /\ last' = "rollback"
         /\ writes' = RemoveAt(writes, i)
         /\ i # j
         /\ writes[i].table = writes[j].table
         /\ writes[i].target # writes[j].target
         /\ SawCurrent(writes[i])
         /\ SawCurrent(writes[j]) )
       => /\ Len(mediaContent') = Len(mediaContent)
          /\ \A k \in DOMAIN mediaContent :
               Touches(writes[j], mediaContent[k]) => mediaContent'[k] = mediaContent[k]]_vars

\* C5: with every call successful and no user action at all, once nothing is
\* on its way to a subscribed page (every event delivered, every cycle done)
\* its collection is the enrichment of the backend state.
C5_QuiescentIsFresh ==
  (Quiescent /\ subs # {} /\ clicks = 0) => mediaContent = Fresh

\* C6: a fetch whose reads all succeeded shows one item per content row
\* read, same ids in the same order, each with the number of like edges on it.
C6_CountIsEdgeCount ==
  [][last' = "fetchOk" =>
       LET f == fetches[1]
           mediaData == IF f.pc = "content" THEN SelectContent(f.tab) ELSE f.mediaData
           allLikes == IF f.pc = "allLikes" THEN likeEdges ELSE f.allLikes
       IN  /\ Len(mediaContent') = Len(mediaData)
           /\ \A k \in DOMAIN mediaData :
                /\ mediaContent'[k].id = mediaData[k].id
                /\ mediaContent'[k].likes_count =
                     Cardinality({e \in allLikes : e[2] = mediaData[k].id})]_vars

\* C7: a second toggleLike on an item, made right after a first one and from
\* a render that shows the first one's patch, brings the item back to what it
\* was before the first; neither write has returned, and a write that
\* succeeds changes nothing in the collection.
C7_TwoTogglesRestoreItem ==
  \A i, j \in DOMAIN writes :
    ( /\ i < j
      /\ writes[i].table = "media_likes"
      /\ writes[j].table = "media_likes"
      /\ writes[i].target = writes[j].target
      /\ writes[i].op # writes[j].op
      /\ SawCurrent(writes[i])
      /\ SawCurrent(writes[j])
      /\ writes[j].before = likePatch(writes[i].before, writes[i].target,
                                      writes[i].op = "delete")
      /\ mediaContent = likePatch(writes[j].before, writes[j].target,
                                  writes[j].op = "delete") )
    => ItemOf(mediaContent, writes[i].target) = ItemOf(writes[i].before, writes[i].target)

\* C8: a toggle invoked by a handler whose viewer is null changes neither the
\* collection nor error and issues no backend write.
C8_NullViewerToggleIsInert ==
  [][(rUser = Null /\ clicks' # clicks /\ last' # "other")
       => /\ mediaContent' = mediaContent
          /\ error' = error
          /\ backend' = backend
          /\ writes' = writes]_vars

\* C8 witness: a toggle was invoked without a viewer on a page showing items.
C8_NullViewerToggled == last = "unauth" /\ rContent # <<>>

\* C9: a cycle that resumes after the view was dismounted writes nothing to
\* the store.
C9_NoStoreWriteAfterDismount ==
  [][(~mounted /\ Len(fetches') < Len(fetches)) => store' = store]_vars

\* C10: once nothing is in flight every item shown belongs to the active tab.
C10_ItemsOfActiveTab ==
  (mounted /\ fetches = <<>> /\ events = <<>> /\ deps = <<activeTab, user>>)
    => \A k \in DOMAIN mediaContent : mediaContent[k].type = activeTab

\* C11: a set marker is released: whenever fetchInProgress is set and the
\* reads of the cycle return, later fetchInProgress is false and loading is
\* false, whichever way the cycle ends.
C11_MarkerReleased == fetchInProgress ~> (~fetchInProgress /\ ~loading)

\* C11 witness: a cycle has just ended on its failure path with the marker
\* released.
C11_ReleasedAfterFailure == last = "fetchFail" /\ ~fetchInProgress /\ ~loading

\* C12: once the effects of the mounted page have run for the active tab and
\* the viewer, a live media_likes subscription and a live creator_follows
\* subscription of that tab exist, whoever the viewer is.
C12_SubscribedWhenActive ==
  (mounted /\ deps = <<activeTab, user>>)
    => \A table \in {"media_likes", "creator_follows"} :
         \E c \in subs : c.table = table /\ c.tab = activeTab

\* C13: the live subscriptions are those of the last run of the effect, one
\* per table; on a dismounted page there is none; and every event on its way
\* to a callback is addressed to a live subscription.
C13_OnlyCurrentSubscriptions ==
  /\ ~mounted => (subs = {} /\ events = <<>>)
  /\ \A c \in subs : deps = <<c.tab, c.user>>
  /\ \A c, d \in subs : c.table = d.table => c = d
  /\ \A k \in DOMAIN events : Channel(events[k]) \in subs

\* C13 witness: after a tab switch the effects have run again and the page
\* holds the subscriptions of the new tab.
C13_ResubscribedAfterSwitch ==
  /\ mounted
  /\ activeTab # "stream"
  /\ deps = <<activeTab, user>>
  /\ subs # {}

\* C14: a delivered change event, INSERT or DELETE alike, starts exactly one
\* cycle when no cycle is in flight, and changes neither the cycles, the
\* marker nor the store when one is.
C14_EventStartsOneCycleOrNothing ==
  [][last' = "event" =>
       IF fetchInProgress
         THEN fetches' = fetches /\ fetchInProgress' = fetchInProgress /\ store' = store
         ELSE Len(fetches') = Len(fetches) + 1 /\ fetchInProgress']_vars

\* C14 witness: the viewer liked and unliked, both writes were applied, and the
\* last change event, the DELETE one, has just been delivered to its callback.
C14_DeleteEventDelivered ==
  /\ last = "event"
  /\ events = <<>>
  /\ writes = <<>>
  /\ clicks = MaxClicks
  /\ ext = 0
  /\ likeEdges = {}
  /\ followEdges = {}
  /\ Len(fetches) = 1

\* the step is the synchronous part of a handleLike call by a signed-in viewer:
\* its write is now the last of the pending ones
LikePatched ==
  /\ last' = "patch"
  /\ Len(writes') = Len(writes) + 1
  /\ writes'[Len(writes')].table = "media_likes"

\* the collection after a like patch, the unlike delta floored at 0 or not: the target
\* item has is_liked inverted with respect to what the handler saw and its
\* count moved by one, every other item is as before, nothing has been written
\* to the backend yet
PatchedBy(floored) ==
  LET w == writes'[Len(writes')]
  IN  /\ backend' = backend
      /\ Len(mediaContent') = Len(mediaContent)
      /\ \A k \in DOMAIN mediaContent :
           IF mediaContent[k].id = w.target
             THEN mediaContent'[k] =
                    [mediaContent[k] EXCEPT
                       !.is_liked = (w.op = "insert"),
                       !.likes_count = IF w.op = "insert" THEN @ + 1
                                       ELSE IF floored /\ @ - 1 < 0 THEN 0
                                       ELSE @ - 1]
             ELSE mediaContent'[k] = mediaContent[k]

\* C15 as stated: the patch is in the collection while the write is pending,
\* with likes_count +1 for a like and -1 for an unlike.
C15_PatchIsPlusMinusOne == [][LikePatched => PatchedBy(FALSE)]_vars

\* C15 amended: the same with the unlike delta floored at 0: likes_count
\* becomes max(0, count - 1).
C15_PatchIsFlooredDelta == [][LikePatched => PatchedBy(TRUE)]_vars

\* C15 witness: an unlike patch was applied to an item whose count was 0 and
\* its delete is pending.
C15_UnlikeAtZeroPending ==
  /\ last = "patch"
  /\ writes # <<>>
  /\ LET w == writes[Len(writes)]
     IN  /\ w.table = "media_likes"
         /\ w.op = "delete"
         /\ w.target \in Ids(w.before)
         /\ ItemOf(w.before, w.target).likes_count = 0
         /\ ItemOf(mediaContent, w.target).likes_count = 0

\* C16: a cycle whose viewer is null never waits on a read filtered by viewer
\* id, and every item it produces has is_liked and is_following false.
C16_NullViewerCycle ==
  [][/\ \A i \in DOMAIN fetches' :
          fetches'[i].user = Null => fetches'[i].pc \in {"content", "allLikes"}
     /\ (fetches # <<>> /\ fetches[1].user = Null /\ last' \in {"fetchOk", "fetchDegraded"})
          => \A k \in DOMAIN mediaContent' :
               ~mediaContent'[k].is_liked /\ ~mediaContent'[k].is_following]_vars

\* C16 witness: the page of a signed-out viewer, never touched by the user, has
\* completed a fetch that shows items while the backend holds like edges.
C16_NullViewerFetched ==
  /\ last = "fetchOk"
  /\ user = Null
  /\ clicks = 0
  /\ mediaContent # <<>>
  /\ likeEdges # {}

\* C17: after a fetch whose reads all succeeded, every item's is_following is
\* true exactly when the viewer of the cycle has a follow edge for the item's
\* creator name; items of one creator therefore agree.
C17_FollowFlagIsFollowEdge ==
  [][last' = "fetchOk" =>
       /\ \A k \in DOMAIN mediaContent' :
            mediaContent'[k].is_following =
              (<<fetches[1].user, mediaContent'[k].creator_name>> \in followEdges)
       /\ \A k, l \in DOMAIN mediaContent' :
            mediaContent'[k].creator_name = mediaContent'[l].creator_name
              => mediaContent'[k].is_following = mediaContent'[l].is_following]_vars

\* C17 witness: a successful fetch shows both items of a followed creator as
\* followed and the item of another creator as not followed.
C17_FollowedCreatorFetched ==
  /\ last = "fetchOk"
  /\ Len(mediaContent) = 3
  /\ mediaContent[1].creator_name = mediaContent[2].creator_name
  /\ mediaContent[1].is_following
  /\ mediaContent[2].is_following
  /\ ~mediaContent[3].is_following

\* what the completing cycle has read, the read that returns in this step
\* included, all reads having succeeded
ReadContent(f) == IF f.pc = "content" THEN SelectContent(f.tab) ELSE f.mediaData
ReadAllLikes(f) == IF f.pc = "allLikes" THEN likeEdges ELSE f.allLikes
ReadUserLikes(f) == IF f.user = Null THEN {} ELSE f.userLikes
ReadUserFollows(f) == IF f.user = Null THEN {} ELSE SelectUserFollows(f.user)

\* C18: when a cycle whose reads all succeeded completes, the collection is
\* exactly the enrichment of what the cycle read: one item per row read, each
\* field computed from the reads, nothing taken from the collection it
\* replaces, a pending toggle's patch included.
C18_ReplacedByEnrichment ==
  [][last' = "fetchOk" =>
       LET f == fetches[1]
           rows == ReadContent(f)
       IN  /\ Len(mediaContent') = Len(rows)
           /\ \A k \in DOMAIN rows :
                mediaContent'[k] =
                  [id |-> rows[k].id, type |-> rows[k].type,
                   creator_name |-> rows[k].creator_name,
                   likes_count |->
                     LET n == Cardinality({e \in ReadAllLikes(f) : e[2] = rows[k].id})
                     IN  IF n # 0 THEN n ELSE rows[k].likes_count,
                   is_liked |-> rows[k].id \in ReadUserLikes(f),
                   is_following |-> rows[k].creator_name \in ReadUserFollows(f)]]_vars

\* C18 witness: a successful fetch completed while a like insert was pending
\* and the collection no longer shows that like.
C18_PatchReplaced ==
  /\ last = "fetchOk"
  /\ \E j \in DOMAIN writes :
       /\ writes[j].table = "media_likes"
       /\ writes[j].op = "insert"
       /\ writes[j].target \in Ids(mediaContent)
       /\ ~ItemOf(mediaContent, writes[j].target).is_liked

\* what a fetch of a tab for a viewer yields from the backend as it is now
FreshFor(tab, usr) ==
  LET mediaData == SelectContent(tab)
  IN  IF Len(mediaData) > 0
        THEN enrichedData(mediaData, likeEdges,
                          IF usr = Null THEN {} ELSE SelectUserLikes(usr),
                          IF usr = Null THEN {} ELSE SelectUserFollows(usr))
        ELSE <<>>

C20_OneHookCycleInFlight == Len(cycles) <= 1

\* the step is the synchronous part of a handleLike or handleFollow call by a
\* signed-in viewer
Toggled == last' = "patch" /\ Len(writes') = Len(writes) + 1

\* the flag of the target a handler reads from its render
RenderedFlag(w) ==
  IF w.table = "media_likes"
    THEN Find(rContent, {k \in DOMAIN rContent : rContent[k].id = w.target}).is_liked
    ELSE Find(rContent, {k \in DOMAIN rContent :
                           rContent[k].creator_name = w.target}).is_following

\* the edge tables after the write w alone has been carried out
EdgesAfter(w) ==
  /\ likeEdges' = IF w.table # "media_likes" THEN likeEdges
                  ELSE IF w.op = "insert" THEN likeEdges \cup {<<w.user, w.target>>}
                  ELSE likeEdges \ {<<w.user, w.target>>}
  /\ followEdges' = IF w.table # "creator_follows" THEN followEdges
                    ELSE IF w.op = "insert" THEN followEdges \cup {<<w.user, w.target>>}
                    ELSE followEdges \ {<<w.user, w.target>>}

\* C21: a toggle issues exactly one write, for the handler's viewer and its
\* target: a delete when the flag the handler read was set, an insert when it
\* was not; nothing reaches the backend before the write returns, a write
\* that succeeds changes the edge of that viewer and target and no other, a
\* write that fails changes none.
C21_WriteMatchesFlag ==
  [][/\ Toggled =>
          LET w == writes'[Len(writes')]
          IN  /\ SubSeq(writes', 1, Len(writes)) = writes
              /\ w.user = rUser
              /\ rUser # Null
              /\ w.op = IF RenderedFlag(w) THEN "delete" ELSE "insert"
              /\ backend' = backend
     /\ last' = "writeOk" =>
          \E i \in DOMAIN writes : writes' = RemoveAt(writes, i) /\ EdgesAfter(writes[i])
     /\ last' = "rollback" => backend' = backend]_vars

\* C21 witness: the viewer's delete of their like on an item has succeeded
\* and another user's like on that item is still there.
C21_UnlikeKeptOtherEdge ==
  /\ last = "writeOk"
  /\ writes = <<>>
  /\ clicks = MaxClicks
  /\ followEdges = {}
  /\ \E id \in Ids(rContent) \cap Ids(mediaContent) :
       /\ likeEdges = {<<Other, id>>}
       /\ ItemOf(rContent, id).is_liked
       /\ ~ItemOf(mediaContent, id).is_liked

\* C22: the return of a successful write changes nothing in the store, and
\* the patch of a toggle whose write has succeeded stays in the collection
\* when something other than a fetch happens: here, when the write of a
\* like on another item fails and is rolled back.
C22_SuccessKeepsPatch ==
  [][/\ last' = "writeOk" => store' = store
     /\ \A i \in DOMAIN writes, id \in MediaIds :
          ( /\ last' = "rollback"
            /\ writes' = RemoveAt(writes, i)
            /\ writes[i].table = "media_likes"
            /\ writes[i].op = "insert"
            /\ SawCurrent(writes[i])
            /\ writes[i].target # id
            /\ {id, writes[i].target} \subseteq Ids(writes[i].before)
            /\ ~ItemOf(writes[i].before, id).is_liked
            /\ mediaContent = likePatch(likePatch(writes[i].before, writes[i].target, FALSE),
                                        id, FALSE)
            /\ <<writes[i].user, id>> \in likeEdges
            /\ \A j \in DOMAIN writes : writes[j].target # id )
          => ItemOf(mediaContent', id).is_liked]_vars

\* C23: the collection changes only in a step that completes a fetch
\* successfully, applies an optimistic patch or rolls one back.
C23_OnlyFetchPatchRollback ==
  [][mediaContent' # mediaContent
       => last' \in {"fetchOk", "fetchDegraded", "patch", "rollback"}]_vars

\* C24: every item of the collection has a likes_count of at least 0.
C24_CountNotNegative ==
  \A k \in DOMAIN mediaContent :
    mediaContent[k].likes_count \in Nat

\* C24 witness: the viewer's unlike of an item whose count was 0 has been
\* patched and written; collection and stored counter both show 0.
C24_UnlikedAtZero ==
  /\ last = "writeOk"
  /\ clicks = 1
  /\ \E id \in Ids(rContent) \cap Ids(mediaContent) :
       /\ ItemOf(rContent, id).is_liked
       /\ ItemOf(rContent, id).likes_count = 0
       /\ ~ItemOf(mediaContent, id).is_liked
       /\ ItemOf(mediaContent, id).likes_count = 0
       /\ likes_count[id] = 0
       /\ <<Viewer, id>> \notin likeEdges

C26_RollbackKeepsFetched ==
  [][(last = "fetchOk" /\ last' = "rollback") => mediaContent' = mediaContent]_vars

\* C27: in every reachable state the items of the collection that share a
\* creator name have the same is_following.
C27_FollowUniform ==
  \A k, l \in DOMAIN mediaContent :
    mediaContent[k].creator_name = mediaContent[l].creator_name
      => mediaContent[k].is_following = mediaContent[l].is_following

\* C27 witness: a like toggle has been rolled back while a follow patch on a
\* creator of two items was in the collection of its snapshot.
C27_RolledBackOverFollow ==
  /\ last = "rollback"
  /\ error = LikeFailed
  /\ Len(mediaContent) = 3
  /\ mediaContent[1].creator_name = mediaContent[2].creator_name
  /\ mediaContent[1].is_following
  /\ mediaContent[2].is_following

\* C28: a second like toggle on an item, run from the same render as a first
\* one still pending and with nothing but the first patch in between, leaves
\* the item with a count that differs from the rendered one by at most 1, and
\* by exactly 1 precisely when is_liked differs from the rendered one.
C28_DoubleToggleConsistent ==
  [][\A i \in DOMAIN writes :
       (/\ Toggled
        /\ writes[i].table = "media_likes"
        /\ writes'[Len(writes')].table = "media_likes"
        /\ writes'[Len(writes')].target = writes[i].target
        /\ writes'[Len(writes')].previousContent = writes[i].previousContent
        /\ SawCurrent(writes[i])
        /\ mediaContent = likePatch(writes[i].before, writes[i].target,
                                    writes[i].op = "delete"))
       => LET old == ItemOf(writes[i].previousContent, writes[i].target)
              new == ItemOf(mediaContent', writes[i].target)
              d == IF new.likes_count >= old.likes_count
                     THEN new.likes_count - old.likes_count
                     ELSE old.likes_count - new.likes_count
          IN  /\ d <= 1
              /\ (d = 1) <=> (new.is_liked # old.is_liked)]_vars

\* C29: a cycle that completes after an edge read returned an error leaves
\* error as it is, replaces the collection, and enriches the content rows with
\* the empty set in place of each failed read; the hook's cycle does the same.
C29_DegradedFetchCompletes ==
  [][/\ \A i \in DOMAIN fetches :
          (last' = "fetchDegraded" /\ fetches' = RemoveAt(fetches, i))
          => /\ error' = error
             /\ Ids(mediaContent') = Ids(fetches[i].mediaData)
             /\ IF fetches[i].pc = "allLikes"
                  THEN mediaContent' = enrichedData(fetches[i].mediaData, {}, {}, {})
                  ELSE \E failed \in BOOLEAN :
                         /\ failed \/ fetches[i].degraded
                         /\ mediaContent' =
                              enrichedData(fetches[i].mediaData, fetches[i].allLikes,
                                           fetches[i].userLikes,
                                           IF failed THEN {}
                                           ELSE SelectUserFollows(fetches[i].user))
     /\ \A i \in DOMAIN cycles :
          (cycles[i].pc = "follows" /\ cycles' = RemoveAt(cycles, i) /\ mediaItems' # <<>>)
          => /\ hookError' = hookError
             /\ \E failed \in BOOLEAN :
                  mediaItems' = enrichedItems(cycles[i].items, cycles[i].likesData,
                                              IF failed THEN {} ELSE followEdges,
                                              cycles[i].userId)]_vars

\* C29 witness: a cycle has completed without error while the viewer's stored
\* like of item a is shown as absent.
C29_LikeShownAbsent ==
  /\ last = "fetchDegraded"
  /\ error = Null
  /\ user = Viewer
  /\ clicks = 0
  /\ <<Viewer, "a">> \in likeEdges
  /\ "a" \in Ids(mediaContent)
  /\ ~ItemOf(mediaContent, "a").is_liked

\* C30: loading is true while a fetch cycle is in flight and false once every
\* started cycle has completed, on the page and in the hook.
C30_LoadingTracksCycles ==
  /\ fetches # <<>> => loading
  /\ (deps # NoDeps /\ fetches = <<>>) => ~loading
  /\ cycles # <<>> => hookLoading
  /\ (hookDeps # NoDeps /\ cycles = <<>>) => ~hookLoading

====
